---- MODULE Spec2Model ----
(***************************************************************************)
(* A brainfuck interpreter (src/main.rs): parse() filters the source to    *)
(* the eight instructions and resolves bracket pairs to absolute targets;  *)
(* run() parses, optionally dumps the instructions, and then executes one  *)
(* instruction per loop iteration against a 65536-cell byte tape, stdin    *)
(* and stdout.                                                             *)
(*                                                                         *)
(* Bytes are their numeric values.  Indices (jump targets, pc, brackets)   *)
(* are 0-based as in the source; TLA+ sequences are 1-based, so the        *)
(* instruction at index i of a sequence s is s[i + 1].                     *)
(***************************************************************************)
EXTENDS Integers, Sequences, FiniteSets, TLC

VARIABLES code, debug, overflowChecks, stdin, rd, stdout, dump,
          stage, result, instrs, tape, pc, ptr, inputs

vars == <<code, debug, overflowChecks, stdin, rd, stdout, dump,
          stage, result, instrs, tape, pc, ptr, inputs>>

(***************************************************************************)
(* code            the source text handed to run, a sequence of bytes      *)
(* debug           opts.debug                                              *)
(* overflowChecks  whether the build checks integer overflow (it panics    *)
(*                 there) or wraps                                         *)
(* stdin, rd       the input stream and how much of it has been taken      *)
(* stdout          the bytes the Output instructions have written          *)
(* dump            what the println! of line 86 has printed: the           *)
(*                 instruction sequences dumped, kept apart from stdout    *)
(* stage           where run is: "start" before the call, "exec" in the    *)
(*                 while loop, "returned", or "panicked"                   *)
(* result          what run returned: "Ok", a ParseError, "IoError";       *)
(*                 "none" while it has not returned                        *)
(* instrs, tape, pc, ptr   the locals of run                               *)
(* inputs          a record of the run, read by no step: for every Input   *)
(*                 instruction that ran to its end while stdin was not at  *)
(*                 its end, the value it left in the current cell          *)
(***************************************************************************)

(***************************************************************************)
(* Bounds of the model.                                                    *)
(***************************************************************************)
\* longest source of the general specification
MaxLen == 3
\* longest source of the bracket specification
MaxBrLen == 6
\* longest stdin stream
MaxIn == 1
\* most bytes the model lets a run write to stdout
MaxOut == 13
MaxInLen == 4
MaxStream == 2

(***************************************************************************)
(* Program constants.                                                      *)
(***************************************************************************)
\* let mut tape = [0u8; 1 << 16]
TapeSize == 65536
\* u8 cells: wrapping_add / wrapping_sub work modulo 2^8
CellMod == 256

(***************************************************************************)
(* enum BfOp                                                               *)
(***************************************************************************)
Gt == [op |-> "Gt"]
Lt == [op |-> "Lt"]
Plus == [op |-> "Plus"]
Minus == [op |-> "Minus"]
Dot == [op |-> "Dot"]
Comma == [op |-> "Comma"]
LBracket(t) == [op |-> "LBracket", target |-> t]
RBracket(t) == [op |-> "RBracket", target |-> t]

\* BfOpOf with `_ => None` turned into an instruction
BfOpOfKeepsOther(c) ==
    CASE c = 62 -> <<Gt>>
      [] c = 60 -> <<Lt>>
      [] c = 43 -> <<Plus>>
      [] c = 45 -> <<Minus>>
      [] c = 46 -> <<Dot>>
      [] c = 44 -> <<Comma>>
      [] c = 91 -> <<LBracket(0)>>
      [] c = 93 -> <<RBracket(0)>>
      [] OTHER -> <<Plus>>

\* BfOpOf with the arms of b'>' and b'<' exchanged
BfOpOfSwapped(c) ==
    CASE c = 62 -> <<Lt>>
      [] c = 60 -> <<Gt>>
      [] c = 43 -> <<Plus>>
      [] c = 45 -> <<Minus>>
      [] c = 46 -> <<Dot>>
      [] c = 44 -> <<Comma>>
      [] c = 91 -> <<LBracket(0)>>
      [] c = 93 -> <<RBracket(0)>>
      [] OTHER -> <<>>

\* the closure of filter_map in parse: Some(op) as <<op>>, None as <<>>
BfOpOf(c) ==
    CASE c = 62 -> <<Gt>>              \* b'>'
      [] c = 60 -> <<Lt>>              \* b'<'
      [] c = 43 -> <<Plus>>            \* b'+'
      [] c = 45 -> <<Minus>>           \* b'-'
      [] c = 46 -> <<Dot>>             \* b'.'
      [] c = 44 -> <<Comma>>           \* b','
      [] c = 91 -> <<LBracket(0)>>     \* b'['
      [] c = 93 -> <<RBracket(0)>>     \* b']'
      [] OTHER -> <<>>

\* FilterMap as map_while: the scan stops at the first byte that is no instruction
FilterMapWhile(s) ==
    LET stop == {k \in 1..Len(s) : BfOpOf(s[k]) = <<>>}
        n == IF stop = {} THEN Len(s) ELSE (CHOOSE k \in stop : \A m \in stop : k <= m) - 1
    IN  [k \in 1..n |-> BfOpOf(s[k])[1]]

\* code.bytes().filter_map(..).collect(): the bytes the closure maps to Some(op),
\* in order, each as its op
FilterMap(s) ==
    LET kept == SelectSeq(s, LAMBDA c : BfOpOf(c) # <<>>)
    IN  [k \in 1..Len(kept) |-> BfOpOf(kept[k])[1]]

ParseOk(is) == [tag |-> "Ok", instrs |-> is]
ParseErr(e) == [tag |-> "Err", err |-> e]

\* Backpatch without the assignment to instrs[j]
BackpatchCloseOnly(is, j, i) ==
    [is EXCEPT ![i + 1] = RBracket(j)]

\* the pair of assignments instrs[j] = LBracket(i); instrs[i] = RBracket(j)
Backpatch(is, j, i) ==
    [is EXCEPT ![j + 1] = LBracket(i), ![i + 1] = RBracket(j)]

\* AfterScan without the test of the stack
AfterScanUnchecked(is, brackets) == ParseOk(is)

\* what follows the loop of parse: the test of the stack and the result
AfterScan(is, brackets) ==
    IF brackets # <<>> THEN ParseErr("UnmatchedLeftBracket") ELSE ParseOk(is)

\* PopBracket taking the oldest pending bracket
PopFrontBracket(brackets) == [j |-> brackets[1], rest |-> Tail(brackets)]

\* brackets.pop() on a stack that is not empty: the index popped, and the rest
PopBracket(brackets) ==
    [j |-> brackets[Len(brackets)], rest |-> SubSeq(brackets, 1, Len(brackets) - 1)]

\* one iteration of `for i in 0..instrs.len()` on the loop's state st: the
\* instructions, the stack `brackets`, and in err the error the `?` left the loop
\* with ("none" while the loop runs), after which no iteration does anything
ScanStep(st, i) ==
    IF st.err # "none"
    THEN st
    ELSE CASE st.instrs[i + 1].op = "LBracket" ->
                [st EXCEPT !.brackets = Append(st.brackets, i)]
           [] st.instrs[i + 1].op = "RBracket" ->
                IF st.brackets = <<>>
                THEN [st EXCEPT !.err = "UnmatchedRightBracket"]
                ELSE LET popped == PopBracket(st.brackets)
                     IN  [st EXCEPT !.instrs = Backpatch(st.instrs, popped.j, i),
                                    !.brackets = popped.rest]
           [] OTHER -> st

\* the iterations lo, lo + 1, .., hi - 1 of the loop, in this order, as the
\* first half of them and then, unless the `?` left the loop there, the second
RECURSIVE Scan(_, _, _)
Scan(st, lo, hi) ==
    IF hi <= lo THEN st
    ELSE IF hi = lo + 1 THEN ScanStep(st, lo)
    ELSE LET mid == (lo + hi) \div 2
             half == Scan(st, lo, mid)
         IN  IF half.err # "none" THEN half ELSE Scan(half, mid, hi)

\* parse from line 65 on: the stack, the loop, the test after it
Resolve(is) ==
    LET st == Scan([instrs |-> is, brackets |-> <<>>, err |-> "none"], 0, Len(is))
    IN  IF st.err # "none" THEN ParseErr(st.err) ELSE AfterScan(st.instrs, st.brackets)

\* fn parse(code: &str) -> Result<Vec<BfOp>, ParseError>
Parse(src) == Resolve(FilterMap(src))

(***************************************************************************)
(* The tape.  `tape` holds the cells that differ from their initial 0, as  *)
(* a function from their indices; every other cell of 0..TapeSize-1 is 0.  *)
(***************************************************************************)
ZeroTape == [i \in {} |-> 0]

\* tape[p] as a value
Cell(t, p) == IF p \in DOMAIN t THEN t[p] ELSE 0

\* SetCell that clears every other cell
SetCellClearsOthers(t, p, v) ==
    IF v = 0 THEN [q \in {} |-> 0] ELSE [q \in {p} |-> v]

\* tape[p] = v
SetCell(t, p, v) ==
    IF v = 0
    THEN [q \in DOMAIN t \ {p} |-> t[q]]
    ELSE [q \in DOMAIN t \cup {p} |-> IF q = p THEN v ELSE t[q]]

(***************************************************************************)
(* The data pointer is a usize.  ptr holds its value when that is below    *)
(* half the usize range and its value minus the range otherwise, so -1 is  *)
(* usize::MAX, the result of a wrapping `0 - 1`.  Runs of the sources      *)
(* below move the pointer by far fewer steps than half that range.         *)
(***************************************************************************)
\* the bounds check of tape[p] and of tape[p..=p]
InTape(p) == 0 <= p /\ p < TapeSize

\* `ptr += 1` overflows at usize::MAX, `ptr -= 1` at 0
AddOverflows(p) == p = -1
SubOverflows(p) == p = 0

\* WrappingAdd without the wrap: a plain + 1
PlainAdd(v) == v + 1

\* u8::wrapping_add(1), u8::wrapping_sub(1)
WrappingAdd(v) == (v + 1) % CellMod
WrappingSub(v) == (v - 1) % CellMod

(***************************************************************************)
(* stdin is the stream of results the reads will get: a byte, or ReadErr   *)
(* (no byte value) for a read that fails; past its end every read returns  *)
(* Ok(0).  rd is the number of results taken.                              *)
(***************************************************************************)
ReadErr == -1
AtEof == rd >= Len(stdin)

(***************************************************************************)
(* Initial states: run has not been called yet.                            *)
(***************************************************************************)
SeqsUpTo(S, n) == UNION {[1..k -> S] : k \in 0..n}

\* the eight instruction bytes
InstrBytes == {62, 60, 43, 45, 46, 44, 91, 93}
\* and a byte that is none of them (a space)
Alphabet == InstrBytes \cup {32}
\* '[', ']', '+', and two bytes that are no instruction (a space, a newline)
BracketAlphabet == {91, 93, 43, 32, 10}
\* what a read of stdin can get before its end: the byte 'A', or a failure
ReadResults == {65, ReadErr}
InputAlphabet == {44, 62, 91, 93}
InputResults == {65, 66, ReadErr}

HelloSource == <<
    43, 43, 43, 43, 43, 43, 43, 43, 91, 62, 43, 43, 43, 43, 91, 62,
    43, 43, 62, 43, 43, 43, 62, 43, 43, 43, 62, 43, 60, 60, 60, 60,
    45, 93, 62, 43, 62, 43, 62, 45, 62, 62, 43, 91, 60, 93, 60, 45,
    93, 62, 62, 46, 62, 45, 45, 45, 46, 43, 43, 43, 43, 43, 43, 43,
    46, 46, 43, 43, 43, 46, 62, 62, 46, 60, 45, 46, 60, 46, 43, 43,
    43, 46, 45, 45, 45, 45, 45, 45, 46, 45, 45, 45, 45, 45, 45, 45,
    45, 46, 62, 62, 43, 46, 62, 43, 43, 46>>

\* "+" n times, and "[-]"
Increments(n) == [i \in 1..n |-> 43]
ClearLoop == <<91, 45, 93>>

HelloOutput == <<72, 101, 108, 108, 111, 32, 87, 111, 114, 108, 100, 33, 10>>

Start ==
    /\ rd = 0
    /\ inputs = <<>>
    /\ stdout = <<>>
    /\ dump = <<>>
    /\ stage = "start"
    /\ result = "none"
    /\ instrs = <<>>
    /\ tape = ZeroTape
    /\ pc = 0
    /\ ptr = 0

Init ==
    /\ code \in SeqsUpTo(Alphabet, MaxLen)
    /\ debug \in BOOLEAN
    /\ overflowChecks \in BOOLEAN
    /\ stdin \in SeqsUpTo(ReadResults, MaxIn)
    /\ Start

\* Dumped with the debug flag ignored
DumpedAlways(is) == Append(dump, is)

\* if debug { println!("{:?}", instrs) }
Dumped(is) == IF debug THEN Append(dump, is) ELSE dump

\* Begin with the dump moved before the `?` of parse(code)?
BeginDumpsFirst ==
    /\ stage = "start"
    /\ dump' = IF debug THEN Append(dump, FilterMap(code)) ELSE dump
    /\ LET r == Parse(code)
       IN  IF r.tag = "Err"
           THEN /\ stage' = "returned"
                /\ result' = r.err
                /\ UNCHANGED <<instrs, tape, pc, ptr>>
           ELSE /\ stage' = "exec"
                /\ instrs' = r.instrs
                /\ tape' = ZeroTape
                /\ pc' = 0
                /\ ptr' = 0
                /\ UNCHANGED result
    /\ UNCHANGED <<code, debug, overflowChecks, stdin, rd, stdout, inputs>>

(***************************************************************************)
(* run, lines 84-94: parse the source, dump the instructions when asked,   *)
(* and set up the tape and the two cursors.                                *)
(***************************************************************************)
Begin ==
    /\ stage = "start"
    /\ LET r == Parse(code)
       IN  IF r.tag = "Err"
           THEN /\ stage' = "returned"
                /\ result' = r.err
                /\ UNCHANGED <<instrs, dump, tape, pc, ptr>>
           ELSE /\ stage' = "exec"
                /\ instrs' = r.instrs
                /\ dump' = Dumped(r.instrs)
                /\ tape' = ZeroTape
                /\ pc' = 0
                /\ ptr' = 0
                /\ UNCHANGED result
    /\ UNCHANGED <<code, debug, overflowChecks, stdin, rd, stdout, inputs>>

\* a panic unwinds out of run: nothing more executes
Panic ==
    /\ stage' = "panicked"
    /\ UNCHANGED <<result, tape, pc, ptr, stdout, rd, inputs>>

\* RBracketPc with the test inverted, and without the jump back
RBracketPcInverted(ins, v) == IF v = 0 THEN ins.target ELSE pc
RBracketPcFallsThrough(ins, v) == pc

\* pc after the arm of LBracket(i), of RBracket(i), the current cell being v
\* LBracketPc with its test negated
LBracketPcInverted(ins, v) == IF v # 0 THEN ins.target ELSE pc

\* LBracketPc that never skips the loop
LBracketPcNeverTaken(ins, v) == pc

\* LBracketPc landing on the matching bracket's successor, once more
LBracketPcOvershoots(ins, v) == IF v = 0 THEN ins.target + 1 ELSE pc

LBracketPc(ins, v) == IF v = 0 THEN ins.target ELSE pc
RBracketPc(ins, v) == IF v # 0 THEN ins.target ELSE pc

\* the end of an iteration that did not leave the loop: pc is `to`, then pc += 1
Advance(to) ==
    /\ pc' = to + 1
    /\ UNCHANGED <<stage, result>>

\* ReadResult taken from the far end of the stream
ReadResultLast == stdin[Len(stdin)]

\* what stdin.read yields when the stream is not at its end
ReadResult == stdin[rd + 1]

\* IoFails with the error dropped: the loop goes on
IoFailsIgnored == Advance(pc)

\* the `?` of a write or read that returned Err: run returns the error
IoFails ==
    /\ stage' = "returned"
    /\ result' = "IoError"
    /\ pc' = pc

\* OutputByte taken one cell too far
OutputByteNextCell == Cell(tape, ptr + 1)

\* the one-byte slice &tape[ptr..=ptr] handed to stdout.write
OutputByte == Cell(tape, ptr)

(***************************************************************************)
(* run, lines 95-120: one iteration of the while loop.                     *)
(***************************************************************************)
Step ==
    /\ stage = "exec"
    /\ pc < Len(instrs)
    /\ LET ins == instrs[pc + 1]
       IN  CASE ins.op = "Gt" ->
                  IF overflowChecks /\ AddOverflows(ptr)
                  THEN Panic
                  ELSE /\ ptr' = ptr + 1
                       /\ Advance(pc)
                       /\ UNCHANGED <<tape, stdout, rd, inputs>>
             [] ins.op = "Lt" ->
                  IF overflowChecks /\ SubOverflows(ptr)
                  THEN Panic
                  ELSE /\ ptr' = ptr - 1
                       /\ Advance(pc)
                       /\ UNCHANGED <<tape, stdout, rd, inputs>>
             [] ins.op = "Plus" ->
                  IF ~InTape(ptr)
                  THEN Panic
                  ELSE /\ tape' = SetCell(tape, ptr, WrappingAdd(Cell(tape, ptr)))
                       /\ Advance(pc)
                       /\ UNCHANGED <<ptr, stdout, rd, inputs>>
             [] ins.op = "Minus" ->
                  IF ~InTape(ptr)
                  THEN Panic
                  ELSE /\ tape' = SetCell(tape, ptr, WrappingSub(Cell(tape, ptr)))
                       /\ Advance(pc)
                       /\ UNCHANGED <<ptr, stdout, rd, inputs>>
             [] ins.op = "Dot" ->
                  IF ~InTape(ptr)
                  THEN Panic
                  ELSE \E written \in BOOLEAN :
                         IF written
                         THEN /\ Len(stdout) < MaxOut
                              /\ stdout' = Append(stdout, OutputByte)
                              /\ Advance(pc)
                              /\ UNCHANGED <<tape, ptr, rd, inputs>>
                         ELSE /\ IoFails
                              /\ UNCHANGED <<tape, ptr, stdout, rd, inputs>>
             [] ins.op = "Comma" ->
                  IF ~InTape(ptr)
                  THEN Panic
                  ELSE IF AtEof
                       THEN /\ tape' = SetCell(tape, ptr, 0)
                            /\ Advance(pc)
                            /\ UNCHANGED <<ptr, stdout, rd, inputs>>
                       ELSE IF ReadResult = ReadErr
                            THEN /\ tape' = SetCell(tape, ptr, 0)
                                 /\ rd' = rd + 1
                                 /\ IoFails
                                 /\ UNCHANGED <<ptr, stdout, inputs>>
                            ELSE /\ tape' = SetCell(tape, ptr, ReadResult)
                                 /\ rd' = rd + 1
                                 /\ inputs' = Append(inputs, Cell(tape', ptr))
                                 /\ Advance(pc)
                                 /\ UNCHANGED <<ptr, stdout>>
             [] ins.op = "LBracket" ->
                  IF ~InTape(ptr)
                  THEN Panic
                  ELSE /\ Advance(LBracketPc(ins, Cell(tape, ptr)))
                       /\ UNCHANGED <<tape, ptr, stdout, rd, inputs>>
             [] ins.op = "RBracket" ->
                  IF ~InTape(ptr)
                  THEN Panic
                  ELSE /\ Advance(RBracketPc(ins, Cell(tape, ptr)))
                       /\ UNCHANGED <<tape, ptr, stdout, rd, inputs>>
    /\ UNCHANGED <<code, debug, overflowChecks, stdin, instrs, dump>>

(***************************************************************************)
(* run, lines 95 and 121: the loop test fails and run returns Ok(()).      *)
(***************************************************************************)
Finish ==
    /\ stage = "exec"
    /\ ~(pc < Len(instrs))
    /\ stage' = "returned"
    /\ result' = "Ok"
    /\ UNCHANGED <<code, debug, overflowChecks, stdin, rd, stdout, dump,
                   instrs, tape, pc, ptr, inputs>>

Next == Begin \/ Step \/ Finish

\* every source over the instruction bytes and a space, up to MaxLen bytes
Spec == Init /\ [][Next]_vars

\* once in its loop the program runs on: an iteration that can be taken is
\* taken, and so is the return when the loop test fails
Fairness == WF_vars(Step) /\ WF_vars(Finish)

\* sources dense in brackets, with two bytes that are no instruction
\* sources of Input, MoveRight and brackets, against streams of two distinct bytes
InitInput ==
    /\ code \in SeqsUpTo(InputAlphabet, MaxInLen)
    /\ debug = FALSE
    /\ overflowChecks \in BOOLEAN
    /\ stdin \in SeqsUpTo(InputResults, MaxStream)
    /\ Start

SpecInput == InitInput /\ [][Next]_vars

InitBrackets ==
    /\ code \in SeqsUpTo(BracketAlphabet, MaxBrLen)
    /\ debug = FALSE
    /\ overflowChecks = TRUE
    /\ stdin = <<>>
    /\ Start

SpecBrackets == InitBrackets /\ [][Next]_vars

\* the Hello World source
InitHello ==
    /\ code = HelloSource
    /\ debug \in BOOLEAN
    /\ overflowChecks \in BOOLEAN
    /\ stdin = <<>>
    /\ Start

SpecHello == InitHello /\ [][Next]_vars /\ Fairness

\* the sources of Spec and CellMod Increments in a row
InitWrap ==
    /\ code \in SeqsUpTo(Alphabet, MaxLen) \cup {Increments(CellMod)}
    /\ debug = FALSE
    /\ overflowChecks \in BOOLEAN
    /\ stdin \in SeqsUpTo(ReadResults, MaxIn)
    /\ Start

SpecWrap == InitWrap /\ [][Next]_vars

\* k Increments and then "[-]", for every k the cell holds without wrapping
InitLoop ==
    /\ code \in {Increments(k) \o ClearLoop : k \in 1..(CellMod - 1)}
    /\ debug = FALSE
    /\ overflowChecks = TRUE
    /\ stdin = <<>>
    /\ Start

SpecLoop == InitLoop /\ [][Next]_vars /\ Fairness

(***************************************************************************)
(* What the properties below speak of.                                     *)
(***************************************************************************)
ParseErrors == {"UnmatchedLeftBracket", "UnmatchedRightBracket"}

\* parse has returned Ok: instrs is the program
Parsed == stage # "start" /\ result \notin ParseErrors

\* how parse ended, once run has called it
ParseOutcome == IF result \in ParseErrors THEN result ELSE "Ok"

\* the number of bytes b in s
Count(s, b) == Len(SelectSeq(s, LAMBDA c : c = b))

\* some prefix of s holds more ']' than '['
ClosesEarly(s) ==
    \E k \in 1..Len(s) : Count(SubSeq(s, 1, k), 93) > Count(SubSeq(s, 1, k), 91)

\* what the bracket counts of a source say parse must answer
ExpectedOutcome(s) ==
    IF ClosesEarly(s) THEN "UnmatchedRightBracket"
    ELSE IF Count(s, 91) > Count(s, 93) THEN "UnmatchedLeftBracket"
    ELSE "Ok"

\* s without the bytes outside "><+-.,[]"
Strip(s) == SelectSeq(s, LAMBDA c : c \in InstrBytes)

IsPrefix(a, b) == Len(a) <= Len(b) /\ a = SubSeq(b, 1, Len(a))

\* the loop is at an instruction with this op
Fetches(op) == stage = "exec" /\ pc < Len(instrs) /\ instrs[pc + 1].op = op

\* nothing of a run has happened: no output, no input taken, no dump, a zero tape
Untouched ==
    /\ stdout = <<>>
    /\ rd = 0
    /\ dump = <<>>
    /\ tape = ZeroTape
    /\ pc = 0
    /\ ptr = 0

(***************************************************************************)
(* C1.  When parse succeeds, bracket pairs are mutual inverses: an         *)
(* LBracket(j) at index i has RBracket(i) at index j, an RBracket(j) at    *)
(* index i has LBracket(i) at index j, and no LBracket is left with the    *)
(* placeholder target 0 (index 0 can hold no closing bracket of a pair).   *)
(***************************************************************************)
C1_BracketPairsMutual ==
    Parsed =>
      \A i \in 0..(Len(instrs) - 1) :
        LET ins == instrs[i + 1]
        IN  /\ ins.op = "LBracket" =>
                  /\ ins.target \in 1..(Len(instrs) - 1)
                  /\ instrs[ins.target + 1] = RBracket(i)
            /\ ins.op = "RBracket" =>
                  /\ ins.target \in 0..(Len(instrs) - 1)
                  /\ instrs[ins.target + 1] = LBracket(i)

\* a parsed program with a bracket pair nested in another
C1_Witness ==
    /\ Parsed
    /\ \E i \in 0..(Len(instrs) - 2) :
          /\ instrs[i + 1].op = "LBracket"
          /\ instrs[i + 2].op = "LBracket"
          /\ instrs[i + 1].target > instrs[i + 2].target

(***************************************************************************)
(* C2.  parse reports unmatched brackets exactly: UnmatchedRightBracket    *)
(* if and only if some prefix of the source holds more ']' than '[',       *)
(* otherwise UnmatchedLeftBracket if and only if the source holds more     *)
(* '[' than ']', otherwise success; "[" , "]" and "[]" among them, "[]"    *)
(* with its pair resolved to each other.                                   *)
(***************************************************************************)
C2_UnmatchedExact ==
    stage # "start" =>
      /\ ParseOutcome = ExpectedOutcome(code)
      /\ result \in ParseErrors => stage = "returned"
      /\ code = <<91>> => result = "UnmatchedLeftBracket"
      /\ code = <<93>> => result = "UnmatchedRightBracket"
      /\ code = <<91, 93>> => result \notin ParseErrors /\ instrs = <<LBracket(1), RBracket(0)>>

\* as many '[' as ']', one closing too early: the error is the right bracket's
C2_Witness ==
    /\ stage = "returned"
    /\ result = "UnmatchedRightBracket"
    /\ Count(code, 91) = Count(code, 93)
    /\ Count(code, 91) >= 2

(***************************************************************************)
(* C3.  Pointer motion past either end of the tape never aborts the run:   *)
(* the run does not panic, and the data pointer stays an index of the      *)
(* tape, 0..TapeSize-1, wrapping modulo the tape size.                     *)
(***************************************************************************)
C3_PointerMotionSafe ==
    /\ stage # "panicked"
    /\ InTape(ptr)

(***************************************************************************)
(* C4.  The Hello World source writes exactly "Hello World!\n" and then    *)
(* halts successfully: the run, once parsed and in its loop, returns; it    *)
(* never panics and never fails to parse; its output is always a prefix of the 13 *)
(* bytes; it returns Ok with exactly the 13 bytes written, and otherwise   *)
(* returns the error of a write that stdout refused, before the 13th byte. *)
(***************************************************************************)
HelloSafe ==
    /\ stage # "panicked"
    /\ result \in {"none", "Ok", "IoError"}
    /\ IsPrefix(stdout, HelloOutput)
    /\ result = "Ok" => stdout = HelloOutput
    /\ result = "IoError" => stdout # HelloOutput
    /\ stage = "returned" => result # "none"

C4_HelloWorld == []HelloSafe /\ (stage = "exec" ~> stage = "returned")

\* the run returned Ok with the whole greeting written
C4_Witness ==
    /\ stage = "returned"
    /\ result = "Ok"
    /\ stdout = HelloOutput
    /\ Len(stdout) = 13

(***************************************************************************)
(* C5.  Cell arithmetic is modular over 0..255: every cell stays in        *)
(* 0..255 (the cells the tape records are the non-zero ones, of indices    *)
(* in the tape); after k of the 256 Increments in a row the cell holds     *)
(* k mod 256, so 0 after all of them; and a Decrement of a cell that       *)
(* holds 0 leaves it at 255.                                               *)
(***************************************************************************)
CellsAreBytes ==
    /\ \A p \in DOMAIN tape : InTape(p) /\ tape[p] \in 1..255
    /\ (code = Increments(CellMod) /\ stage = "exec") => Cell(tape, 0) = pc % 256
    /\ (code = Increments(CellMod) /\ stage # "start") =>
          /\ Len(instrs) = 256
          /\ stage \in {"exec", "returned"}
          /\ stage = "returned" => result = "Ok" /\ Cell(tape, 0) = 0

DecrementOfZero ==
    (Fetches("Minus") /\ InTape(ptr) /\ Cell(tape, ptr) = 0) =>
      (ptr' = ptr /\ Cell(tape', ptr) = 255)

C5_CellsWrap == []CellsAreBytes /\ [][DecrementOfZero]_vars

\* the 256 Increments have run and the cell is back at 0
C5_Witness ==
    /\ code = Increments(CellMod)
    /\ stage = "returned"
    /\ pc = 256
    /\ tape = ZeroTape

(***************************************************************************)
(* C6.  k Increments (1 <= k <= 255) followed by "[-]" halt successfully   *)
(* and leave cell 0 at 0: the run is parsed, never panics, from its loop   *)
(* it eventually returns, and then the result is Ok and the tape all zero. *)
(***************************************************************************)
LoopCleared ==
    /\ stage # "panicked"
    /\ result \notin ParseErrors
    /\ stage = "returned" => (result = "Ok" /\ Cell(tape, 0) = 0 /\ tape = ZeroTape)

C6_ClearLoopHalts == []LoopCleared /\ (stage = "exec" ~> stage = "returned")

\* the longest of them, 255 Increments and "[-]", has halted
C6_Witness ==
    /\ stage = "returned"
    /\ result = "Ok"
    /\ Len(code) = 258
    /\ Cell(tape, 0) = 0

(***************************************************************************)
(* C7.  Bytes that are no instruction are inert in parse: run gets from    *)
(* parse(code) what parse gives for code with those bytes removed, the     *)
(* same instructions with the same targets or the same error.              *)
(***************************************************************************)
C7_OtherBytesInert ==
    stage # "start" =>
      LET r == Parse(Strip(code))
      IN  IF r.tag = "Err"
          THEN result = r.err
          ELSE result \notin ParseErrors /\ instrs = r.instrs

\* a parsed source with other bytes before, inside and after a bracket pair
C7_Witness ==
    /\ Parsed
    /\ Len(code) >= Len(instrs) + 3
    /\ code[1] \notin InstrBytes
    /\ code[Len(code)] \notin InstrBytes
    /\ \E i \in 2..(Len(code) - 2) :
          code[i] = 91 /\ code[i + 1] \notin InstrBytes /\ code[i + 2] = 93

(***************************************************************************)
(* C8.  An Input instruction executed when stdin has no further bytes      *)
(* leaves the current cell at 0, raises no error, and execution goes on    *)
(* with the next instruction.                                              *)
(***************************************************************************)
InputAtEof ==
    (Fetches("Comma") /\ AtEof) =>
      /\ stage' = "exec"
      /\ result' = "none"
      /\ pc' = pc + 1
      /\ ptr' = ptr
      /\ Cell(tape', ptr) = 0

C8_InputAtEofLeavesZero == [][InputAtEof]_vars

\* with the data pointer inside the tape every such step does what C8 says
C8_InTape == [][InTape(ptr) => InputAtEof]_vars

(***************************************************************************)
(* C9.  Parsing is all-or-nothing: for a source with an unmatched bracket  *)
(* run returns the parse error and nothing else has happened: the loop     *)
(* was never entered, no byte written, no input taken, no dump emitted,    *)
(* no cell changed.                                                        *)
(***************************************************************************)
C9_ParseAllOrNothing ==
    /\ (stage # "start" /\ ExpectedOutcome(code) # "Ok") =>
          /\ stage = "returned"
          /\ result = ExpectedOutcome(code)
    /\ result \in ParseErrors =>
          /\ stage = "returned"
          /\ instrs = <<>>
          /\ Untouched

\* a source that would write and read before its unmatched bracket, under debug
C9_Witness ==
    /\ stage = "returned"
    /\ result \in ParseErrors
    /\ debug
    /\ stdin # <<>>
    /\ code[1] = 46
    /\ code[2] = 44

(***************************************************************************)
(* C10.  A source with no byte from "><+-.,[]", the empty source among     *)
(* them, parses to the empty program; the run executes no step (the loop   *)
(* test fails at once), returns Ok, writes nothing and takes no input.     *)
(***************************************************************************)
C10_EmptyProgramNoOp ==
    (stage # "start" /\ Strip(code) = <<>>) =>
      /\ instrs = <<>>
      /\ stage \in {"exec", "returned"}
      /\ stage = "exec" => (result = "none" /\ ~ENABLED Step /\ ENABLED Finish)
      /\ stage = "returned" => result = "Ok"
      /\ stdout = <<>>
      /\ rd = 0
      /\ tape = ZeroTape
      /\ pc = 0
      /\ ptr = 0

\* a source of other bytes only has run to its end, with input waiting
C10_Witness ==
    /\ stage = "returned"
    /\ result = "Ok"
    /\ Len(code) >= 2
    /\ Strip(code) = <<>>
    /\ stdin # <<>>

(***************************************************************************)
(* C11.  A failed write of an Output instruction, or a failed read of an   *)
(* Input instruction, ends the run at once: that step returns the I/O      *)
(* error, it appends nothing to the output, and after it no step is taken  *)
(* at all, so no further instruction runs and no further byte is written   *)
(* or read.                                                                *)
(***************************************************************************)
ReadFails ==
    /\ Fetches("Comma")
    /\ InTape(ptr)
    /\ ~AtEof
    /\ stdin[rd + 1] = ReadErr

IoStepAborts ==
    /\ ReadFails =>
          /\ stage' = "returned"
          /\ result' = "IoError"
          /\ stdout' = stdout
          /\ rd' = rd + 1
          /\ pc' = pc
    /\ (Fetches("Dot") /\ InTape(ptr) /\ stdout' = stdout) =>
          /\ stage' = "returned"
          /\ result' = "IoError"
          /\ rd' = rd
          /\ pc' = pc

IoErrorIsFinal == result = "IoError" => (stage = "returned" /\ ~ENABLED Next)

C11_IoErrorAborts == []IoErrorIsFinal /\ [][IoStepAborts]_vars

\* a read failed after a byte was written, with an instruction still to run
C11_Witness ==
    /\ result = "IoError"
    /\ rd = 1
    /\ stdout # <<>>
    /\ pc + 1 < Len(instrs)

(***************************************************************************)
(* C12.  With debug on and a source that parses, the instruction list is   *)
(* dumped exactly once, and before the first instruction runs: the dump    *)
(* appears in the step that leaves parse, when nothing has been written,   *)
(* read or executed, and never changes afterwards.  With debug off there   *)
(* is never a dump.                                                        *)
(***************************************************************************)
DumpMatchesDebug ==
    /\ stage = "start" => dump = <<>>
    /\ Parsed => dump = (IF debug THEN <<instrs>> ELSE <<>>)
    /\ ~debug => dump = <<>>

DumpOnlyOnEntry ==
    dump' # dump =>
      /\ debug
      /\ stage = "start"
      /\ stage' = "exec"
      /\ dump' = <<instrs'>>
      /\ pc' = 0
      /\ stdout' = <<>>
      /\ rd' = 0
      /\ tape' = ZeroTape

C12_DumpOnceBeforeRun == []DumpMatchesDebug /\ [][DumpOnlyOnEntry]_vars

\* a debug run that executed instructions and wrote output holds one dump
C12_Witness ==
    /\ debug
    /\ stage = "returned"
    /\ result = "Ok"
    /\ Len(instrs) >= 2
    /\ stdout # <<>>
    /\ dump = <<instrs>>

(***************************************************************************)
(* C13.  Input is taken lazily and in order.  The stream position moves    *)
(* only in a step of an Input instruction that finds the stream not at its *)
(* end, and by one; the Input instructions that ran to their end on such   *)
(* a stream are as many as the bytes taken, and the k-th of them left the  *)
(* k-th byte of the stream in the current cell.  (An Input whose read      *)
(* fails takes no byte and ends the run, C11.)                             *)
(***************************************************************************)
BytesTaken == SelectSeq(SubSeq(stdin, 1, rd), LAMBDA b : b # ReadErr)

InputsInOrder ==
    /\ rd <= Len(stdin)
    /\ Len(inputs) = Len(BytesTaken)
    /\ \A k \in 1..Len(inputs) : inputs[k] = stdin[k]

OneByteAtInput ==
    rd' # rd =>
      /\ Fetches("Comma")
      /\ ~AtEof
      /\ rd' = rd + 1
      /\ stage' = "exec" => Cell(tape', ptr') = stdin[rd']

C13_InputLazyInOrder == []InputsInOrder /\ [][OneByteAtInput]_vars

\* two Inputs stored two different bytes in two different cells
C13_Witness ==
    /\ Len(inputs) = 2
    /\ inputs[1] # inputs[2]
    /\ ptr > 0
    /\ Cell(tape, 0) = stdin[1]
    /\ Cell(tape, ptr) = stdin[2]

(***************************************************************************)
(* C14.  Jumps realise while-loop control flow.  In every step that runs   *)
(* an instruction and leaves the run going: an LBracket at pc with         *)
(* matching close j moves pc to j + 1 when the current cell is 0 and to    *)
(* pc + 1 otherwise; an RBracket at pc with matching open i moves pc to    *)
(* i + 1 when the current cell is not 0 and to pc + 1 otherwise; any       *)
(* other instruction moves pc to pc + 1.  (Steps that end the run are the  *)
(* subject of C3 and C11.)                                                 *)
(***************************************************************************)
\* the bracket of the other kind that points back at index i
MatchOf(i) ==
    CHOOSE j \in 0..(Len(instrs) - 1) :
        /\ instrs[j + 1].op \in {"LBracket", "RBracket"}
        /\ instrs[j + 1].op # instrs[i + 1].op
        /\ instrs[j + 1].target = i

JumpStep ==
    (stage = "exec" /\ pc < Len(instrs) /\ stage' = "exec") =>
        LET op == instrs[pc + 1].op
            v == Cell(tape, ptr)
        IN  CASE op = "LBracket" ->
                    pc' = IF v = 0 THEN MatchOf(pc) + 1 ELSE pc + 1
              [] op = "RBracket" ->
                    pc' = IF v # 0 THEN MatchOf(pc) + 1 ELSE pc + 1
              [] OTHER -> pc' = pc + 1

C14_JumpsRealiseLoops == [][JumpStep]_vars

\* a loop around a nested loop was skipped by its LBracket on a zero cell
C14_Witness ==
    /\ stage = "exec"
    /\ Len(instrs) >= 4
    /\ instrs[1].op = "LBracket"
    /\ instrs[1].target = Len(instrs) - 1
    /\ \E k \in 2..(Len(instrs) - 1) : instrs[k].op = "LBracket"
    /\ pc = Len(instrs)
    /\ tape = ZeroTape

(***************************************************************************)
(* C15.  Bracket matching is nesting-aware.  In a parsed program every     *)
(* LBracket targets a larger index and every RBracket a smaller one; the   *)
(* RBracket at j is paired with the nearest preceding LBracket that is     *)
(* still unmatched, that is, every bracket strictly between the two is     *)
(* paired strictly between them; and pairs never cross: for pairs (i, j)   *)
(* and (k, l) with i < k < j, also l < j.                                  *)
(***************************************************************************)
IsBracket(k) == instrs[k + 1].op \in {"LBracket", "RBracket"}

\* the pairs (open, close) that the targets of the LBrackets name
Pairs ==
    {<<i, instrs[i + 1].target>> :
        i \in {k \in 0..(Len(instrs) - 1) : instrs[k + 1].op = "LBracket"}}

C15_NestingAware ==
    Parsed =>
      /\ \A i \in 0..(Len(instrs) - 1) :
            /\ instrs[i + 1].op = "LBracket" => instrs[i + 1].target > i
            /\ instrs[i + 1].op = "RBracket" => instrs[i + 1].target < i
      /\ \A j \in 0..(Len(instrs) - 1) :
            instrs[j + 1].op = "RBracket" =>
               LET i == instrs[j + 1].target
               IN  /\ i \in 0..(Len(instrs) - 1)
                   /\ instrs[i + 1].op = "LBracket"
                   /\ \A k \in (i + 1)..(j - 1) :
                         IsBracket(k) => instrs[k + 1].target \in (i + 1)..(j - 1)
      /\ \A p, q \in Pairs :
            (p[1] < q[1] /\ q[1] < p[2]) => q[2] < p[2]

\* a loop nested in a loop, followed by a third loop
C15_Witness ==
    /\ Parsed
    /\ Len(instrs) = 6
    /\ instrs[1] = LBracket(3)
    /\ instrs[2] = LBracket(2)
    /\ instrs[5] = LBracket(5)

(***************************************************************************)
(* C16.  A parsed program holds one instruction per byte of the source     *)
(* that is one of "><+-.,[]", in source order, by the fixed table          *)
(* '>' Gt, '<' Lt, '+' Plus, '-' Minus, '.' Dot, ',' Comma, '[' LBracket,  *)
(* ']' RBracket; its length is the number of those bytes in the source.    *)
(***************************************************************************)
\* the table of the claim, by the name of the instruction
OpName(c) ==
    CASE c = 62 -> "Gt"
      [] c = 60 -> "Lt"
      [] c = 43 -> "Plus"
      [] c = 45 -> "Minus"
      [] c = 46 -> "Dot"
      [] c = 44 -> "Comma"
      [] c = 91 -> "LBracket"
      [] c = 93 -> "RBracket"

\* the positions of the source that hold an instruction byte
InstrPositions == {k \in 1..Len(code) : code[k] \in InstrBytes}

C16_OneInstrPerByte ==
    Parsed =>
      /\ Len(instrs) = Cardinality(InstrPositions)
      /\ \A k \in InstrPositions :
            LET n == Cardinality({m \in InstrPositions : m <= k})
            IN  instrs[n].op = OpName(code[k])

\* a source whose middle byte is dropped: "< ," parses to Lt, Comma
C16_Witness ==
    /\ Parsed
    /\ Len(code) = 3
    /\ code[2] = 32
    /\ Len(instrs) = 2
    /\ instrs[1].op = "Lt"
    /\ instrs[2].op = "Comma"

(***************************************************************************)
(* C17.  Every Output instruction that runs either appends exactly one     *)
(* byte, the value of the current cell tape[ptr], to the output and the    *)
(* run goes on, or appends nothing and the run ends with an error; no      *)
(* other step touches the output.  So on a run without I/O error the       *)
(* output is the current-cell values at the Output steps, in order.        *)
(***************************************************************************)
OutputStep ==
    /\ Fetches("Dot") =>
          \/ /\ stage' = "exec"
             /\ InTape(ptr)
             /\ stdout' = Append(stdout, Cell(tape, ptr))
          \/ /\ stage' = "returned"
             /\ result' = "IoError"
             /\ stdout' = stdout
          \/ /\ stage' = "panicked"
             /\ stdout' = stdout
    /\ stdout' # stdout => Fetches("Dot")

C17_OutputOneByte == [][OutputStep]_vars

\* a run that ended without error wrote the byte it had read into the cell
C17_Witness ==
    /\ stage = "returned"
    /\ result = "Ok"
    /\ ptr = 0
    /\ Cell(tape, 0) = 65
    /\ stdout = <<65>>

(***************************************************************************)
(* C18.  A step changes only what its instruction names.  Gt, Lt, Dot,     *)
(* LBracket and RBracket leave every cell of the tape as it was; Plus,     *)
(* Minus and Comma leave ptr and every cell other than the one at ptr as   *)
(* they were; only Gt and Lt change ptr; and once parsed the instruction   *)
(* sequence never changes.                                                 *)
(***************************************************************************)
FrameStep ==
    /\ (stage = "exec" /\ pc < Len(instrs)) =>
          LET op == instrs[pc + 1].op
          IN  /\ op \in {"Gt", "Lt", "Dot", "LBracket", "RBracket"} => tape' = tape
              /\ op \in {"Plus", "Minus", "Comma"} =>
                    /\ ptr' = ptr
                    /\ \A p \in (DOMAIN tape \cup DOMAIN tape') \ {ptr} :
                          Cell(tape', p) = Cell(tape, p)
              /\ ptr' # ptr => op \in {"Gt", "Lt"}
    /\ stage # "start" => instrs' = instrs

C18_StepFrame == [][FrameStep]_vars

\* two cells were changed, one after the other, and both hold their values
C18_Witness ==
    /\ stage = "returned"
    /\ result = "Ok"
    /\ ptr = 1
    /\ Cell(tape, 0) # 0
    /\ Cell(tape, 1) # 0

(***************************************************************************)
(* C19.  For a parsed program 0 <= pc <= Len(instrs) in every state, also  *)
(* after a taken jump; an instruction is fetched only at pc < Len(instrs); *)
(* and the run returns Ok exactly at pc = Len(instrs): there the loop      *)
(* cannot step and run returns, and below it run cannot return Ok.         *)
(***************************************************************************)
PcInRange ==
    Parsed =>
      /\ 0 <= pc
      /\ pc <= Len(instrs)
      /\ ENABLED Step => pc < Len(instrs)
      /\ result = "Ok" => pc = Len(instrs)
      /\ (stage = "exec" /\ pc = Len(instrs)) => (~ENABLED Step /\ ENABLED Finish)
      /\ (stage = "exec" /\ pc < Len(instrs)) => ~ENABLED Finish

ReturnsOkAtEnd == (result # "Ok" /\ result' = "Ok") => (pc = Len(instrs) /\ pc' = pc)

C19_PcWithinProgram == []PcInRange /\ [][ReturnsOkAtEnd]_vars

\* a loop that ran was left through its closing bracket, the last instruction
C19_Witness ==
    /\ stage = "returned"
    /\ result = "Ok"
    /\ Len(instrs) >= 3
    /\ instrs[1].op = "Plus"
    /\ instrs[Len(instrs)].op = "RBracket"
    /\ pc = Len(instrs)

(***************************************************************************)
(* C20.  Loop exit postcondition.  Whenever a bracket step passes control  *)
(* to the instruction just after an RBracket (a taken LBracket jump, or an *)
(* RBracket not taken) the current cell is 0; whenever it passes control   *)
(* to the instruction just after an LBracket (an LBracket not taken, or a  *)
(* taken RBracket jump) the current cell is not 0.                         *)
(***************************************************************************)
LoopPostcondition ==
    (/\ stage = "exec"
     /\ pc < Len(instrs)
     /\ instrs[pc + 1].op \in {"LBracket", "RBracket"}
     /\ stage' = "exec") =>
        /\ pc' >= 1
        /\ instrs[pc'].op = "RBracket" => Cell(tape', ptr') = 0
        /\ instrs[pc'].op = "LBracket" => Cell(tape', ptr') # 0

C20_LoopExitPostcondition == [][LoopPostcondition]_vars

\* "+[+]" is back in its body by a taken RBracket, the cell holding 2
C20_Witness ==
    /\ stage = "exec"
    /\ instrs = <<Plus, LBracket(3), Plus, RBracket(1)>>
    /\ pc = 2
    /\ Cell(tape, ptr) = 2

====
